---- MODULE Spec2Model ----
(***************************************************************************)
(* A model of TechnicalSupportAgent (src/technical_councellor_agent.py):   *)
(* the keyword interceptors, the category classifier, the per-user         *)
(* conversation memory and the completion call of get_support_response,    *)
(* run by concurrent request threads that share one agent; and of          *)
(* support_endpoint (src/app.py), through which the requests come.         *)
(***************************************************************************)
EXTENDS Integers, Sequences, FiniteSets, TLC

(***************************************************************************)
(* Bounds of the model.                                                    *)
(***************************************************************************)
\* Request threads that call the agent in one behaviour, one call each.
MaxThreads == 2

(***************************************************************************)
(* Inputs.                                                                 *)
(***************************************************************************)
\* The threads, numbered in the order their calls start.
Threads == 1..MaxThreads

Users == {"u1", "u2"}

\* The user_message values the callers send.
Messages ==
    { "my internet is not working",
      "Wi-Fi bill payment",
      "pay my bill",
      "upgrade my account",
      "reset password",
      "technical issue with router",
      "Technical Issue resolved",
      "rate 3",
      "internet visit",
      "Schedule Call",
      "New Connection",
      "bye new connection",
      "thank you",
      "okay bye",
      "exit",
      "3",
      "5",
      "bye" }

\* The user_message values of the requests: those of Messages, the empty
\* string, and messages the endpoint answers itself.
RequestMessages ==
    Messages \cup { "", "customer care number", "Contact Number",
                    "Schedule Technical Visit" }

\* The user_details values: a JSON object, and an object json.dumps rejects.
EmptyDetails == [json |-> "{}"]
SetDetails == [unserializable |-> "set"]
UserDetails == {EmptyDetails, SetDetails}

\* The texts the completion service answers with.
Completions == {"Please restart your router.", "Glad to help."}

(***************************************************************************)
(* Python strings.                                                         *)
(***************************************************************************)
UpperLetters == "ABCDEFGHIJKLMNOPQRSTUVWXYZ"
LowerLetters == "abcdefghijklmnopqrstuvwxyz"

\* str.lower() of one character.
LowerChar(c) ==
    IF \E i \in 1..Len(UpperLetters) : SubSeq(UpperLetters, i, i) = c
    THEN LET i == CHOOSE j \in 1..Len(UpperLetters) : SubSeq(UpperLetters, j, j) = c
         IN  SubSeq(LowerLetters, i, i)
    ELSE c

\* str.lower()
lower(s) ==
    LET low[i \in 0..Len(s)] ==
            IF i = 0 THEN "" ELSE low[i - 1] \o LowerChar(SubSeq(s, i, i))
    IN  low[Len(s)]

\* keyword in s
In(keyword, s) ==
    \E i \in 1..(Len(s) - Len(keyword) + 1) :
        SubSeq(s, i, i + Len(keyword) - 1) = keyword

\* any(keyword in s.lower() for keyword in keywords)
AnyIn(keywords, s) == \E keyword \in keywords : In(keyword, lower(s))

Range(f) == {f[i] : i \in DOMAIN f}

(***************************************************************************)
(* Calls inside the agent: a call returns a value or raises an exception.  *)
(***************************************************************************)
Return(value) == [raised |-> FALSE, value |-> value]
Raise(exception) == [raised |-> TRUE, value |-> exception]

\* The methods class TechnicalSupportAgent defines.
Methods ==
    { "initialize_prompts", "_initialize_llm", "get_user_memory",
      "_get_conversation_history", "_categorize_query",
      "_prepare_support_inputs", "get_prompt_template",
      "get_support_response", "ask_for_feedback", "handle_feedback",
      "handle_exit" }

\* self.<name>(...): the attribute lookup on the agent, then the call, whose
\* body returns value.
CallMethod(name, value) ==
    IF name \in Methods
    THEN Return(value)
    ELSE Raise("'TechnicalSupportAgent' object has no attribute '" \o name \o "'")

\* The keys of self.prompts: each names its own template text.
prompts ==
    { "technical_support", "billing", "service_request",
      "account_management", "general_queries" }

(***************************************************************************)
(* _categorize_query                                                       *)
(***************************************************************************)
\* _categorize_query with the billing keywords tested first.
categorize_billing_first(query) ==
    IF AnyIn({"bill", "payment", "balance"}, query) THEN "billing"
    ELSE IF AnyIn({"wi-fi", "internet", "connectivity"}, query) THEN "technical_support"
    ELSE IF AnyIn({"new connection", "upgrade", "install"}, query) THEN "service_request"
    ELSE IF AnyIn({"password", "account"}, query) THEN "account_management"
    ELSE "general_queries"

_categorize_query(query) ==
    IF AnyIn({"wi-fi", "internet", "connectivity"}, query) THEN "technical_support"
    ELSE IF AnyIn({"bill", "payment", "balance"}, query) THEN "billing"
    ELSE IF AnyIn({"new connection", "upgrade", "install"}, query) THEN "service_request"
    ELSE IF AnyIn({"password", "account"}, query) THEN "account_management"
    ELSE "general_queries"

(***************************************************************************)
(* The canned replies.                                                     *)
(***************************************************************************)
ask_for_feedback(previous_response) ==
    [response |-> "Thank you for your message! Please rate our service on a scale of 1 to 5."]

\* int(feedback) of a rating literal.
int(feedback) ==
    CASE feedback = "1" -> 1
      [] feedback = "2" -> 2
      [] feedback = "3" -> 3
      [] feedback = "4" -> 4
      [] feedback = "5" -> 5

\* handle_feedback with the rating 3 in the upper tier.
handle_feedback_from_3(feedback) ==
    IF feedback \in {"1", "2", "3", "4", "5"}
    THEN IF int(feedback) >= 3
         THEN [response |-> "Thank you for your feedback! You rated our service as "
                              \o feedback \o ", Excellent!"]
         ELSE IF int(feedback) < 3
         THEN [response |-> "Thank you for your feedback! You rated our service as "
                              \o feedback \o ". Please provide suggestions for improvement."]
         ELSE [response |-> "Thank you for your feedback! You rated our service as "
                              \o feedback \o ", Satisfactory."]
    ELSE [response |-> "It seems you provided an invalid rating. Please rate our service on a scale of 1 to 5."]

handle_feedback(feedback) ==
    IF feedback \in {"1", "2", "3", "4", "5"}
    THEN IF int(feedback) > 3
         THEN [response |-> "Thank you for your feedback! You rated our service as "
                              \o feedback \o ", Excellent!"]
         ELSE IF int(feedback) < 3
         THEN [response |-> "Thank you for your feedback! You rated our service as "
                              \o feedback \o ". Please provide suggestions for improvement."]
         ELSE [response |-> "Thank you for your feedback! You rated our service as "
                              \o feedback \o ", Satisfactory."]
    ELSE [response |-> "It seems you provided an invalid rating. Please rate our service on a scale of 1 to 5."]

handle_exit ==
    [response |-> "Goodbye! Thank you for reaching out. If you need assistance in the future, feel free to contact us again. Have a great day!"]

(***************************************************************************)
(* get_support_response: the interceptors, in the order of the code.       *)
(***************************************************************************)
\* Interceptor without its last check: "bye" goes on to the category routing.
InterceptorWithoutExit(message) ==
    IF AnyIn({"schedule call", "visit", "setup connection"}, message)
    THEN "schedule_visit_or_call"
    ELSE IF In("new connection", lower(message))
    THEN "handle_new_connection"
    ELSE IF \/ In("thank you", lower(message))
            \/ In("exit", lower(message))
            \/ In("okay bye", lower(message))
    THEN "ask_for_feedback"
    ELSE IF message \in {"1", "2", "3", "4", "5"}
    THEN "handle_feedback"
    ELSE "none"

\* Interceptor with the new-connection check moved to the end.
InterceptorNewConnectionLast(message) ==
    IF AnyIn({"schedule call", "visit", "setup connection"}, message)
    THEN "schedule_visit_or_call"
    ELSE IF \/ In("thank you", lower(message))
            \/ In("exit", lower(message))
            \/ In("okay bye", lower(message))
    THEN "ask_for_feedback"
    ELSE IF message \in {"1", "2", "3", "4", "5"}
    THEN "handle_feedback"
    ELSE IF \/ In("bye", lower(message))
            \/ In("thank you", lower(message))
            \/ In("okay bye", lower(message))
    THEN "handle_exit"
    ELSE IF In("new connection", lower(message))
    THEN "handle_new_connection"
    ELSE "none"

\* Interceptor with the exit check before the feedback check.
InterceptorExitFirst(message) ==
    IF AnyIn({"schedule call", "visit", "setup connection"}, message)
    THEN "schedule_visit_or_call"
    ELSE IF In("new connection", lower(message))
    THEN "handle_new_connection"
    ELSE IF \/ In("bye", lower(message))
            \/ In("thank you", lower(message))
            \/ In("okay bye", lower(message))
    THEN "handle_exit"
    ELSE IF \/ In("thank you", lower(message))
            \/ In("exit", lower(message))
            \/ In("okay bye", lower(message))
    THEN "ask_for_feedback"
    ELSE IF message \in {"1", "2", "3", "4", "5"}
    THEN "handle_feedback"
    ELSE "none"

\* Interceptor whose rating check takes any message with a rating digit in it.
InterceptorRatingContained(message) ==
    IF AnyIn({"schedule call", "visit", "setup connection"}, message)
    THEN "schedule_visit_or_call"
    ELSE IF In("new connection", lower(message))
    THEN "handle_new_connection"
    ELSE IF \/ In("thank you", lower(message))
            \/ In("exit", lower(message))
            \/ In("okay bye", lower(message))
    THEN "ask_for_feedback"
    ELSE IF \E digit \in {"1", "2", "3", "4", "5"} : In(digit, message)
    THEN "handle_feedback"
    ELSE IF \/ In("bye", lower(message))
            \/ In("thank you", lower(message))
            \/ In("okay bye", lower(message))
    THEN "handle_exit"
    ELSE "none"

\* The method the first matching interceptor calls, "none" when none matches.
Interceptor(message) ==
    IF AnyIn({"schedule call", "visit", "setup connection"}, message)
    THEN "schedule_visit_or_call"
    ELSE IF In("new connection", lower(message))
    THEN "handle_new_connection"
    ELSE IF \/ In("thank you", lower(message))
            \/ In("exit", lower(message))
            \/ In("okay bye", lower(message))
    THEN "ask_for_feedback"
    ELSE IF message \in {"1", "2", "3", "4", "5"}
    THEN "handle_feedback"
    ELSE IF \/ In("bye", lower(message))
            \/ In("thank you", lower(message))
            \/ In("okay bye", lower(message))
    THEN "handle_exit"
    ELSE "none"

\* What the call of the interceptor's method yields. A method the class does
\* not define has no body, and its call raises in CallMethod.
Intercept(method, message) ==
    CASE method = "ask_for_feedback" ->
            CallMethod(method, ask_for_feedback(message))
      [] method = "handle_feedback" ->
            CallMethod(method, handle_feedback(message))
      [] method = "handle_exit" ->
            CallMethod(method, handle_exit)
      [] OTHER ->
            CallMethod(method, [response |-> ""])

\* Except without the handler: the exception goes on to the caller.
ExceptNothing(outcome) == outcome

\* Except that returns the error next to an empty response.
ExceptWithResponse(outcome) ==
    IF outcome.raised
    THEN Return([response |-> "", error |-> "An error occurred: " \o outcome.value])
    ELSE outcome

\* except Exception as e: return {'error': ...}
Except(outcome) ==
    IF outcome.raised
    THEN Return([error |-> "An error occurred: " \o outcome.value])
    ELSE outcome

\* The interceptor and the category of every message, tabulated.
Lookup(table, key) == (CHOOSE row \in table : row[1] = key)[2]
InterceptorTable == {<< m, Interceptor(m) >> : m \in RequestMessages}
CategoryTable == {<< m, _categorize_query(m) >> : m \in RequestMessages}
InterceptorOf(message) == Lookup(InterceptorTable, message)
CategoryOf(query) == Lookup(CategoryTable, query)

(***************************************************************************)
(* The conversation memory (langchain ConversationBufferMemory).           *)
(***************************************************************************)
\* save_context that puts the turn in front of the buffer.
save_context_in_front(buffer, input, output) ==
    << [type |-> "human", content |-> input],
       [type |-> "ai", content |-> output] >> \o buffer

\* save_context({"input": input}, {"output": output}): the two messages of a
\* turn are appended to the buffer.
save_context(buffer, input, output) ==
    buffer \o << [type |-> "human", content |-> input],
                 [type |-> "ai", content |-> output] >>

\* "\n".join(lines)
join(lines) ==
    LET joined[i \in 0..Len(lines)] ==
            IF i = 0 THEN ""
            ELSE IF i = 1 THEN lines[1]
            ELSE joined[i - 1] \o "\n" \o lines[i]
    IN  joined[Len(lines)]

\* json.dumps(user_details, indent=2)
json_dumps(details) ==
    IF "json" \in DOMAIN details
    THEN Return(details.json)
    ELSE Raise("Object of type set is not JSON serializable")

\* The conversation_history input of the prompt.
conversation_summary(conversation_history) ==
    join([i \in 1..Len(conversation_history) |->
            conversation_history[i].type \o ": " \o conversation_history[i].content])

_prepare_support_inputs(details, message, conversation_history) ==
    LET dumped == json_dumps(details)
    IN  IF dumped.raised THEN dumped
        ELSE Return([user_details |-> dumped.value,
                     conversation_history |-> conversation_summary(conversation_history),
                     user_message |-> message])

\* PromptTemplate(template=self.prompts.get(category)): a template that is
\* None is rejected by the constructor.
get_prompt_template(key) ==
    IF key \in prompts
    THEN Return(key)
    ELSE Raise("1 validation error for PromptTemplate")

\* prompt_template.format(**inputs): the template and what fills its fields.
format(template, inputs) ==
    [template |-> template,
     user_details |-> inputs.user_details,
     conversation_history |-> inputs.conversation_history,
     user_message |-> inputs.user_message]

\* The check after the turn is saved, and what the call then returns.
HandleUnresolved(message, completion) ==
    IF In("technical issue", lower(message)) /\ ~ In("resolved", lower(message))
    THEN CallMethod("ask_for_engineer_visit", [response |-> ""])
    ELSE Return([response |-> completion])

UnresolvedTable ==
    {<< << m, r >>, HandleUnresolved(m, r) >> : m \in Messages, r \in Completions}
UnresolvedOf(message, completion) == Lookup(UnresolvedTable, << message, completion >>)

(***************************************************************************)
(* support_endpoint (src/app.py): the requests and what it answers.        *)
(***************************************************************************)
None == "None"

\* The body of a request whose JSON is null: request.json is None.
JsonNull == [json_null |-> TRUE]

\* A key of the JSON object with one of the values, or the key left out.
Optional(key, values) ==
    {[k \in {key} |-> v] : v \in values} \cup {[k \in {} |-> None]}

\* request.json of the requests: JSON objects of a user with or without
\* details and message, JSON objects without user_id or with an empty one,
\* and the JSON null.
Requests ==
    { id @@ details @@ message :
        id \in Optional("user_id", Users) \ Optional("user_id", {}),
        details \in Optional("user_details", {SetDetails}),
        message \in Optional("user_message", RequestMessages) }
    \cup
    { id @@ message :
        id \in Optional("user_id", {""}),
        message \in Optional("user_message",
                             {"", "customer care number", "internet visit", "pay my bill"}) }
    \cup {JsonNull}

\* data.get(key, default)
get(body, key, default) == IF key \in DOMAIN body THEN body[key] ELSE default

\* not value
Not(value) == value \in {None, ""}

\* The way a request takes through support_endpoint, with the pre-empt tests
\* before the test of the required fields.
route_preempt_first(body) ==
    IF body = JsonNull THEN "except"
    ELSE LET user == get(body, "user_id", None)
             message == get(body, "user_message", None)
         IN  IF /\ message # None
                /\ \/ In("customer care number", lower(message))
                   \/ In("contact number", lower(message))
             THEN "customer_care"
             ELSE IF message # None /\ In("schedule technical visit", lower(message))
             THEN "technical_visit"
             ELSE IF Not(user) \/ Not(message)
             THEN "required"
             ELSE "agent"

\* The way a request takes through support_endpoint, the pre-empt tests on
\* user_message as it was sent (not lower-cased).
route_case_sensitive(body) ==
    IF body = JsonNull THEN "except"
    ELSE LET user == get(body, "user_id", None)
             message == get(body, "user_message", None)
         IN  IF Not(user) \/ Not(message)
             THEN "required"
             ELSE IF \/ In("customer care number", message)
                     \/ In("contact number", message)
             THEN "customer_care"
             ELSE IF In("schedule technical visit", message)
             THEN "technical_visit"
             ELSE "agent"

\* The way a request takes through support_endpoint: data.get on a body
\* that is None raises into the except clause; a request without user_id or
\* user_message is rejected; two kinds of message are answered at once; the
\* others go to the agent.
support_endpoint_route(body) ==
    IF body = JsonNull THEN "except"
    ELSE LET user == get(body, "user_id", None)
             message == get(body, "user_message", None)
         IN  IF Not(user) \/ Not(message)
             THEN "required"
             ELSE IF \/ In("customer care number", lower(message))
                     \/ In("contact number", lower(message))
             THEN "customer_care"
             ELSE IF In("schedule technical visit", lower(message))
             THEN "technical_visit"
             ELSE "agent"

\* The way of every request, tabulated.
Routes == {"except", "required", "customer_care", "technical_visit", "agent"}
RouteTable == {<< body, support_endpoint_route(body) >> : body \in Requests}
On(body, route) == << body, route >> \in RouteTable
RouteOf(body) == CHOOSE route \in Routes : On(body, route)
RequestsOn == {<< route, {row[1] : row \in {r \in RouteTable : r[2] = route}} >> : route \in Routes}
Rejecting == Lookup(RequestsOn, "required")
Preempting == Lookup(RequestsOn, "customer_care") \cup Lookup(RequestsOn, "technical_visit")
Excepting == Lookup(RequestsOn, "except")
ToAgent == Lookup(RequestsOn, "agent")

\* The text of the except clause of support_endpoint.
Apology ==
    "It seems there was an issue processing your request. Please visit our support page for assistance: https://www.airtel.in/support"

\* jsonify(...), status: what support_endpoint answers on each way that
\* does not go to the agent.
support_endpoint_answer(route) ==
    CASE route = "required" ->
            [status |-> 400,
             body |-> [error |-> "user_id and user_message are required"]]
      [] route = "customer_care" ->
            [status |-> 200,
             body |-> [response |-> "Thank you for reaching out! You can contact Airtel customer care by visiting our support page: https://www.airtel.in/support"]]
      [] route = "technical_visit" ->
            [status |-> 200,
             body |-> [response |-> "Thank you for your request! To schedule a technical visit, please visit our support page: https://www.airtel.in/support"]]
      [] route = "except" ->
            [status |-> 500,
             body |-> [response |-> Apology,
                       error |-> "'NoneType' object has no attribute 'get'"]]

\* What support_endpoint answers after agent.get_support_response: an
\* exception of the call goes to the except clause, a record with an error
\* is answered as its error with status 500, any other record as it is.
support_endpoint_reply(outcome) ==
    IF outcome.raised
    THEN [status |-> 500, body |-> [response |-> Apology, error |-> outcome.value]]
    ELSE IF "error" \in DOMAIN outcome.value
    THEN [status |-> 500, body |-> [error |-> outcome.value.error]]
    ELSE [status |-> 200, body |-> outcome.value]

(***************************************************************************)
(* The state.                                                              *)
(***************************************************************************)
VARIABLES
    memory,            \* self.memory: user id -> the buffer object of the user
    buffers,           \* the buffer objects created so far: object -> messages
    pc,                \* where each thread is
    user_message,      \* the arguments of the thread's call
    user_details,
    user_id,
    category,          \* the locals of the thread's call
    user_memory,
    formatted_prompt,
    response,
    result,            \* what the thread's call gave its caller
    calls,             \* the methods the thread's call has called, in order
    data,              \* request.json of the request the thread serves
    reply              \* what support_endpoint answered the request

vars == << memory, buffers, pc, user_message, user_details, user_id, category,
           user_memory, formatted_prompt, response, result, calls, data, reply >>

NoDetails == [none |-> TRUE]
NoPrompt == [none |-> TRUE]
NoResult == [none |-> TRUE]
NoRequest == [no_request |-> TRUE]
NoReply == [no_reply |-> TRUE]

Init ==
    /\ memory = [u \in {} |-> 0]
    /\ buffers = << >>
    /\ pc = [t \in Threads |-> "idle"]
    /\ user_message = [t \in Threads |-> None]
    /\ user_details = [t \in Threads |-> NoDetails]
    /\ user_id = [t \in Threads |-> None]
    /\ category = [t \in Threads |-> None]
    /\ user_memory = [t \in Threads |-> 0]
    /\ formatted_prompt = [t \in Threads |-> NoPrompt]
    /\ response = [t \in Threads |-> None]
    /\ result = [t \in Threads |-> NoResult]
    /\ calls = [t \in Threads |-> << >>]
    /\ data = [t \in Threads |-> NoRequest]
    /\ reply = [t \in Threads |-> NoReply]

\* A thread calls a method of the agent with these arguments.
Enter(t, details, message, user) ==
    /\ pc[t] = "idle"
    /\ \A s \in Threads : s < t => pc[s] # "idle"
    /\ user_message' = [user_message EXCEPT ![t] = message]
    /\ user_details' = [user_details EXCEPT ![t] = details]
    /\ user_id' = [user_id EXCEPT ![t] = user]

\* The thread's call goes on to call these methods.
Calling(t, methods) == calls' = [calls EXCEPT ![t] = @ \o methods]

\* The thread's call ends with this outcome.
Leave(t, outcome) ==
    /\ result' = [result EXCEPT ![t] = outcome]
    /\ pc' = [pc EXCEPT ![t] = "done"]

\* When the call of get_support_response has ended, support_endpoint answers
\* the request from what the call gave.
Replied(t) ==
    reply' = [reply EXCEPT ![t] =
                 IF pc'[t] = "done" THEN support_endpoint_reply(result'[t]) ELSE @]

\* Intercepted that looks the user's memory up (and makes it) first.
InterceptedAfterMemory(t, details, message, user) ==
    /\ Enter(t, details, message, user)
    /\ InterceptorOf(message) # "none"
    /\ calls' = [calls EXCEPT ![t] = << "get_support_response", InterceptorOf(message) >>]
    /\ Leave(t, Except(Intercept(InterceptorOf(message), message)))
    /\ Replied(t)
    /\ IF user \in DOMAIN memory
       THEN UNCHANGED << memory, buffers >>
       ELSE /\ buffers' = Append(buffers, << >>)
            /\ memory' = [u \in DOMAIN memory \cup {user} |->
                            IF u = user THEN Len(buffers) + 1 ELSE memory[u]]
    /\ UNCHANGED << category, user_memory, formatted_prompt, response >>

\* get_support_response, a message an interceptor matches: the interceptor's
\* method is called and the call returns.
Intercepted(t, details, message, user) ==
    /\ Enter(t, details, message, user)
    /\ InterceptorOf(message) # "none"
    /\ calls' = [calls EXCEPT ![t] = << "get_support_response", InterceptorOf(message) >>]
    /\ Leave(t, Except(Intercept(InterceptorOf(message), message)))
    /\ Replied(t)
    /\ UNCHANGED << memory, buffers, category, user_memory, formatted_prompt, response >>

\* get_support_response, a message no interceptor matches: the query is
\* categorized and get_user_memory looks the user up in self.memory.
Routed(t, details, message, user) ==
    /\ Enter(t, details, message, user)
    /\ InterceptorOf(message) = "none"
    /\ calls' = [calls EXCEPT ![t] =
                    << "get_support_response", "_categorize_query", "get_user_memory" >>]
    /\ category' = [category EXCEPT ![t] = CategoryOf(message)]
    /\ IF user \notin DOMAIN memory
       THEN /\ pc' = [pc EXCEPT ![t] = "create"]
            /\ UNCHANGED user_memory
       ELSE /\ pc' = [pc EXCEPT ![t] = "history"]
            /\ user_memory' = [user_memory EXCEPT ![t] = memory[user]]
    /\ UNCHANGED << memory, buffers, formatted_prompt, response, result, reply >>

\* CreateMemory with one buffer for all users: a new buffer is made only
\* when there is none yet.
CreateMemoryShared(t) ==
    /\ pc[t] = "create"
    /\ buffers' = IF buffers = << >> THEN << << >> >> ELSE buffers
    /\ memory' = [u \in DOMAIN memory \cup {user_id[t]} |-> 1]
    /\ user_memory' = [user_memory EXCEPT ![t] = 1]
    /\ pc' = [pc EXCEPT ![t] = "history"]
    /\ UNCHANGED << user_message, user_details, user_id, category,
                    formatted_prompt, response, result, calls, data, reply >>

\* get_user_memory, the user was not in self.memory: a new buffer is stored
\* under the user id and returned.
CreateMemory(t) ==
    /\ pc[t] = "create"
    /\ buffers' = Append(buffers, << >>)
    /\ memory' = [u \in DOMAIN memory \cup {user_id[t]} |->
                    IF u = user_id[t] THEN Len(buffers) + 1 ELSE memory[u]]
    /\ user_memory' = [user_memory EXCEPT ![t] = Len(buffers) + 1]
    /\ pc' = [pc EXCEPT ![t] = "history"]
    /\ UNCHANGED << user_message, user_details, user_id, category,
                    formatted_prompt, response, result, calls, data, reply >>

\* _get_conversation_history reads the buffer self.memory holds for the user
\* (the user is in self.memory by now), and the prompt is put together.
PreparePrompt(t) ==
    /\ pc[t] = "history"
    /\ Calling(t, << "_get_conversation_history", "_prepare_support_inputs" >>)
    /\ LET conversation_history == buffers[memory[user_id[t]]]
           inputs == _prepare_support_inputs(user_details[t], user_message[t],
                                             conversation_history)
           prompt_template == get_prompt_template(category[t])
       IN  IF inputs.raised
           THEN /\ Leave(t, Except(inputs))
                /\ UNCHANGED formatted_prompt
           ELSE IF prompt_template.raised
           THEN /\ Leave(t, Except(prompt_template))
                /\ UNCHANGED formatted_prompt
           ELSE /\ formatted_prompt' = [formatted_prompt EXCEPT ![t] =
                        format(prompt_template.value, inputs.value)]
                /\ pc' = [pc EXCEPT ![t] = "predict"]
                /\ UNCHANGED result
    /\ Replied(t)
    /\ UNCHANGED << memory, buffers, user_message, user_details, user_id,
                    category, user_memory, response, data >>

\* llm.predict returns a completion: the turn is saved into the buffer the
\* call got from get_user_memory, and the call returns.
PredictReturns(t, completion) ==
    /\ pc[t] = "predict"
    /\ response' = [response EXCEPT ![t] = completion]
    /\ buffers' = [buffers EXCEPT ![user_memory[t]] =
                      save_context(@, user_message[t], completion)]
    /\ Calling(t, IF UnresolvedOf(user_message[t], completion).raised
                  THEN << "llm.predict", "save_context", "ask_for_engineer_visit" >>
                  ELSE << "llm.predict", "save_context" >>)
    /\ Leave(t, Except(UnresolvedOf(user_message[t], completion)))
    /\ Replied(t)
    /\ UNCHANGED << memory, user_message, user_details, user_id, category,
                    user_memory, formatted_prompt, data >>

\* llm.predict raises.
PredictRaises(t) ==
    /\ pc[t] = "predict"
    /\ Calling(t, << "llm.predict" >>)
    /\ Leave(t, Except(Raise("completion service failure")))
    /\ Replied(t)
    /\ UNCHANGED << memory, buffers, user_message, user_details, user_id,
                    category, user_memory, formatted_prompt, response, data >>

\* A thread calls _categorize_query(query).
CategorizeQuery(t, query) ==
    /\ Enter(t, NoDetails, query, None)
    /\ calls' = [calls EXCEPT ![t] = << "_categorize_query" >>]
    /\ Leave(t, Return(CategoryOf(query)))
    /\ UNCHANGED << memory, buffers, category, user_memory, formatted_prompt, response,
                    data, reply >>

\* support_endpoint on a way that does not go to the agent: the locals are
\* taken from the body (none when data.get raises) and the answer is given.
Answers(t, body) ==
    /\ IF body = JsonNull
       THEN /\ pc[t] = "idle"
            /\ \A s \in Threads : s < t => pc[s] # "idle"
            /\ UNCHANGED << user_message, user_details, user_id >>
       ELSE Enter(t, get(body, "user_details", EmptyDetails),
                     get(body, "user_message", None), get(body, "user_id", None))
    /\ data' = [data EXCEPT ![t] = body]
    /\ calls' = [calls EXCEPT ![t] = << "support_endpoint" >>]
    /\ reply' = [reply EXCEPT ![t] = support_endpoint_answer(RouteOf(body))]
    /\ pc' = [pc EXCEPT ![t] = "done"]
    /\ UNCHANGED << memory, buffers, category, user_memory, formatted_prompt,
                    response, result >>

\* support_endpoint, a request without user_id or user_message.
Rejected(t, body) ==
    /\ On(body, "required")
    /\ Answers(t, body)

\* support_endpoint, a request for the customer care number or for a
\* technical visit.
Preempted(t, body) ==
    /\ On(body, "customer_care") \/ On(body, "technical_visit")
    /\ Answers(t, body)

\* support_endpoint, a request whose handling raises: the except clause.
ExceptClause(t, body) ==
    /\ On(body, "except")
    /\ Answers(t, body)

\* support_endpoint, any other request: agent.get_support_response is called
\* with the fields of the body.
CallAgent(t, body) ==
    /\ On(body, "agent")
    /\ data' = [data EXCEPT ![t] = body]
    /\ \/ Intercepted(t, get(body, "user_details", EmptyDetails),
                       get(body, "user_message", None), get(body, "user_id", None))
       \/ Routed(t, get(body, "user_details", EmptyDetails),
                  get(body, "user_message", None), get(body, "user_id", None))

\* The feedback values handle_feedback is called with.
Feedbacks == {"1", "2", "3", "4", "5", "9", "0", "five"}

\* A thread calls handle_feedback(feedback).
HandleFeedback(t, feedback) ==
    /\ Enter(t, NoDetails, feedback, None)
    /\ calls' = [calls EXCEPT ![t] = << "handle_feedback" >>]
    /\ Leave(t, Return(handle_feedback(feedback)))
    /\ UNCHANGED << memory, buffers, category, user_memory, formatted_prompt, response,
                    data, reply >>

\* The categories get_prompt_template is called with: the keys of
\* self.prompts and two that are no key.
Categories == prompts \cup {"refund", "Billing"}

\* MultiSupportAgent.get_prompt_template (src/app.py):
\* self.prompts.get(category, self.prompts['general_queries'])
MultiSupportAgent_get_prompt_template(key) ==
    IF key \in prompts
    THEN Return(key)
    ELSE Return("general_queries")

\* A thread calls get_prompt_template(key) of one of the two agent classes.
GetPromptTemplate(t, agent, key) ==
    /\ Enter(t, NoDetails, None, None)
    /\ category' = [category EXCEPT ![t] = key]
    /\ calls' = [calls EXCEPT ![t] = << agent \o ".get_prompt_template" >>]
    /\ Leave(t, IF agent = "MultiSupportAgent"
                THEN MultiSupportAgent_get_prompt_template(key)
                ELSE get_prompt_template(key))
    /\ UNCHANGED << memory, buffers, user_memory, formatted_prompt, response,
                    data, reply >>

\* GetUserMemory that makes a new buffer whether the user has one or not.
GetUserMemoryAnew(t, user) ==
    /\ Enter(t, NoDetails, None, user)
    /\ calls' = [calls EXCEPT ![t] = << "get_user_memory" >>]
    /\ pc' = [pc EXCEPT ![t] = "store"]
    /\ UNCHANGED << user_memory, result >>
    /\ UNCHANGED << memory, buffers, category, formatted_prompt, response,
                    data, reply >>

\* A thread calls get_user_memory(user): the user is looked up in
\* self.memory, and the buffer stored for it is returned when there is one.
GetUserMemory(t, user) ==
    /\ Enter(t, NoDetails, None, user)
    /\ calls' = [calls EXCEPT ![t] = << "get_user_memory" >>]
    /\ IF user \notin DOMAIN memory
       THEN /\ pc' = [pc EXCEPT ![t] = "store"]
            /\ UNCHANGED << user_memory, result >>
       ELSE /\ user_memory' = [user_memory EXCEPT ![t] = memory[user]]
            /\ Leave(t, Return(memory[user]))
    /\ UNCHANGED << memory, buffers, category, formatted_prompt, response,
                    data, reply >>

\* get_user_memory called by a thread, the user was not in self.memory: a
\* new buffer is stored under the user id and returned.
StoreMemory(t) ==
    /\ pc[t] = "store"
    /\ buffers' = Append(buffers, << >>)
    /\ memory' = [u \in DOMAIN memory \cup {user_id[t]} |->
                    IF u = user_id[t] THEN Len(buffers) + 1 ELSE memory[u]]
    /\ user_memory' = [user_memory EXCEPT ![t] = Len(buffers) + 1]
    /\ Leave(t, Return(Len(buffers) + 1))
    /\ UNCHANGED << user_message, user_details, user_id, category,
                    formatted_prompt, response, calls, data, reply >>

Next ==
    \/ \E t \in Threads, body \in Rejecting : Rejected(t, body)
    \/ \E t \in Threads, body \in Preempting : Preempted(t, body)
    \/ \E t \in Threads, body \in Excepting : ExceptClause(t, body)
    \/ \E t \in Threads, body \in ToAgent : CallAgent(t, body)
    \/ \E t \in Threads, feedback \in Feedbacks : HandleFeedback(t, feedback)
    \/ \E t \in Threads, agent \in {"TechnicalSupportAgent", "MultiSupportAgent"},
             key \in Categories :
          GetPromptTemplate(t, agent, key)
    \/ \E t \in Threads, user \in Users : GetUserMemory(t, user)
    \/ \E t \in Threads : StoreMemory(t)
    \/ \E t \in Threads : CreateMemory(t)
    \/ \E t \in Threads : PreparePrompt(t)
    \/ \E t \in Threads, completion \in Completions : PredictReturns(t, completion)
    \/ \E t \in Threads : PredictRaises(t)
    \/ \E t \in Threads, query \in Messages : CategorizeQuery(t, query)

Spec == Init /\ [][Next]_vars

\* Calls do not overlap: a call starts only when no other call is under way.
SeqNext ==
    /\ Next
    /\ \A t1, t2 \in Threads :
          (t1 # t2) => (pc'[t1] \in {"idle", "done"} \/ pc'[t2] \in {"idle", "done"})

SeqSpec == Init /\ [][SeqNext]_vars

(***************************************************************************)
(* What the properties speak of.                                           *)
(***************************************************************************)
\* The thread's call of get_support_response is under way or has ended.
Called(t) == pc[t] # "idle" /\ calls[t][1] = "get_support_response"

\* The thread's call of get_support_response has ended.
Ended(t) == pc[t] = "done" /\ calls[t][1] = "get_support_response"

\* The call returned a record with this field.
Gave(t, field) == Ended(t) /\ ~ result[t].raised /\ field \in DOMAIN result[t].value

\* The call called the method.
Invoked(t, method) == method \in Range(calls[t])

\* The messages of a user's transcript: the buffer self.memory holds for it.
Transcript(u) == IF u \in DOMAIN memory THEN buffers[memory[u]] ELSE << >>

IsPrefix(a, b) == Len(a) <= Len(b) /\ SubSeq(b, 1, Len(a)) = a

\* The turn of the thread's call, as save_context stores it.
Turn(t) ==
    << [type |-> "human", content |-> user_message[t]],
       [type |-> "ai", content |-> response[t]] >>

\* The turn is in the sequence of messages.
HasTurn(messages, turn) ==
    \E i \in 1..(Len(messages) - 1) : SubSeq(messages, i, i + 1) = turn

\* The keywords of the interceptors, as the specification lists them.
HasScheduleKeyword(m) ==
    \/ In("schedule call", lower(m))
    \/ In("visit", lower(m))
    \/ In("setup connection", lower(m))
HasFeedbackKeyword(m) ==
    \/ In("thank you", lower(m))
    \/ In("exit", lower(m))
    \/ In("okay bye", lower(m))
MatchesInterceptor(m) ==
    \/ HasScheduleKeyword(m)
    \/ In("new connection", lower(m))
    \/ HasFeedbackKeyword(m)
    \/ m \in {"1", "2", "3", "4", "5"}
    \/ In("bye", lower(m))
ByeAndNewConnection(m) ==
    /\ In("bye", lower(m))
    /\ In("new connection", lower(m))
    /\ ~ HasScheduleKeyword(m)
Unresolved(m) == In("technical issue", lower(m)) /\ ~ In("resolved", lower(m))

\* The categories in their order, each with its keywords.
CategoryKeywords ==
    << << "technical_support", {"wi-fi", "internet", "connectivity"} >>,
       << "billing", {"bill", "payment", "balance"} >>,
       << "service_request", {"new connection", "upgrade", "install"} >>,
       << "account_management", {"password", "account"} >> >>
MatchesCategory(m, i) == \E k \in CategoryKeywords[i][2] : In(k, lower(m))
FirstCategory(m) ==
    IF \E i \in 1..Len(CategoryKeywords) : MatchesCategory(m, i)
    THEN LET i == CHOOSE j \in 1..Len(CategoryKeywords) :
                      /\ MatchesCategory(m, j)
                      /\ \A k \in 1..(j - 1) : ~ MatchesCategory(m, k)
         IN  CategoryKeywords[i][1]
    ELSE "general_queries"

\* The above, tabulated for the messages.
Intercepting == {<< m, MatchesInterceptor(m) >> : m \in Messages}
Both == {<< m, ByeAndNewConnection(m) >> : m \in Messages}
Unresolving == {<< m, Unresolved(m) >> : m \in Messages}
Expected == {<< m, FirstCategory(m) >> : m \in Messages}
Technical ==
    {<< m, In("wi-fi", lower(m)) \/ In("internet", lower(m)) \/ In("connectivity", lower(m)) >> :
        m \in Messages}

(***************************************************************************)
(* The properties.                                                         *)
(***************************************************************************)
\* The call ended on a failure inside it: the last method it called is one
\* the class does not define, or json.dumps raised within
\* _prepare_support_inputs, or llm.predict raised.
Failed(t) ==
    /\ Ended(t)
    /\ LET last == calls[t][Len(calls[t])]
       IN  \/ last \notin Methods \cup {"save_context"}
           \/ last = "_prepare_support_inputs"

\* C1: get_support_response never lets an exception escape: every call that
\* has ended returned a record, and a call that failed inside an interceptor,
\* in the prompt assembly or in the completion call returned a record with
\* an error field.
C1_NeverRaises ==
    \A t \in Threads :
        Ended(t) =>
            /\ ~ result[t].raised
            /\ Failed(t) => "error" \in DOMAIN result[t].value

\* A call whose completion call raised has returned an error record.
C1_Witness ==
    \E t \in Threads :
        /\ Failed(t)
        /\ calls[t][Len(calls[t])] = "llm.predict"
        /\ Gave(t, "error")

\* C2: failed attempts are never recorded: a call that returned an error
\* record has saved no turn into a transcript.
C2_FailedAttemptsNotRecorded ==
    \A t \in Threads :
        Gave(t, "error") =>
            /\ ~ Invoked(t, "save_context")
            /\ user_memory[t] # 0 => ~ HasTurn(buffers[user_memory[t]], Turn(t))

\* C3: no interceptor branch invokes the completion service: a call whose
\* message matches an interceptor never categorizes the query, never looks
\* the memory up and never calls llm.predict; it ends at once.
C3_InterceptorsNeverPredict ==
    \A t \in Threads :
        (Called(t) /\ Lookup(Intercepting, user_message[t])) =>
            /\ Ended(t)
            /\ ~ Invoked(t, "llm.predict")
            /\ ~ Invoked(t, "_categorize_query")
            /\ ~ Invoked(t, "get_user_memory")
            /\ Len(calls[t]) = 2

\* A call with a message that has an interceptor keyword and a category
\* keyword has ended.
C3_Witness ==
    \E t \in Threads :
        /\ Ended(t)
        /\ user_message[t] = "internet visit"
        /\ ~ Invoked(t, "llm.predict")

\* C4: every interceptor, when matched, returns a canned response: a call
\* whose message matches an interceptor returns a record with a response
\* field and no error field.
C4_InterceptorsRespond ==
    \A t \in Threads :
        (Ended(t) /\ Lookup(Intercepting, user_message[t])) =>
            /\ Gave(t, "response")
            /\ ~ Gave(t, "error")

\* C5: post-hoc override: a call that no interceptor matched and whose
\* completion succeeded returns a response (not an error) in place of the
\* completion when the message has "technical issue" and not "resolved", and
\* the completion otherwise.
C5_PostHocOverride ==
    \A t \in Threads :
        (Ended(t) /\ Invoked(t, "save_context")) =>
            IF Lookup(Unresolving, user_message[t])
            THEN Gave(t, "response") /\ ~ Gave(t, "error")
            ELSE ~ result[t].raised /\ result[t].value = [response |-> response[t]]

\* C6, as stated: a message with "bye" and "new connection" (and no
\* schedule or visit keyword) is handled by ask_for_feedback.
C6_FeedbackWinsOverNewConnection ==
    \A t \in Threads :
        (Ended(t) /\ Lookup(Both, user_message[t])) =>
            calls[t][2] = "ask_for_feedback"

\* C6, amended: a message with "bye" and "new connection" (and no schedule
\* or visit keyword) is taken by the new-connection branch: the one method
\* the call calls is handle_new_connection.
C6_NewConnectionWins ==
    \A t \in Threads :
        (Ended(t) /\ Lookup(Both, user_message[t])) =>
            /\ calls[t] = << "get_support_response", "handle_new_connection" >>
            /\ ~ Invoked(t, "ask_for_feedback")
            /\ ~ Invoked(t, "handle_exit")

\* A call with such a message has ended.
C6_Witness ==
    \E t \in Threads :
        /\ Ended(t)
        /\ user_message[t] = "bye new connection"

\* The thread's call of _categorize_query has ended.
Categorized(t) == pc[t] = "done" /\ calls[t] = << "_categorize_query" >>

\* C7: _categorize_query is total and first-match-wins: it returns one of
\* the five categories, the first in the order technical_support, billing,
\* service_request, account_management with a keyword in the lower-cased
\* message, general_queries when there is none; a message with "wi-fi",
\* "internet" or "connectivity" is technical_support. The category a
\* get_support_response call routes by is that category too.
C7_FirstMatchWins ==
    \A t \in Threads :
        /\ Categorized(t) =>
              /\ ~ result[t].raised
              /\ result[t].value \in prompts
              /\ result[t].value = Lookup(Expected, user_message[t])
              /\ Lookup(Technical, user_message[t]) => result[t].value = "technical_support"
        /\ (Called(t) /\ Invoked(t, "_categorize_query")) =>
              category[t] = Lookup(Expected, user_message[t])

\* A message with a technical and two billing keywords has been categorized.
C7_Witness ==
    \E t \in Threads :
        /\ Categorized(t)
        /\ user_message[t] = "Wi-Fi bill payment"
        /\ result[t].value = "technical_support"

\* The lines of the rendered history of a transcript.
Lines(messages) ==
    [i \in 1..Len(messages) |-> messages[i].type \o ": " \o messages[i].content]

\* C8: transcript order, calls not overlapping: a user's transcript only
\* grows at its end (the transcript before a step is a prefix of the one
\* after it), the history rendered from it is its "<role>: <content>" lines
\* in the order of the turns, and the history in a call's prompt is the one
\* rendered from the user's transcript.
C8_TranscriptOrder ==
    [][ /\ \A u \in Users :
              /\ IsPrefix(Transcript(u), Transcript(u)')
              /\ conversation_summary(Transcript(u)') = join(Lines(Transcript(u)'))
              /\ IsPrefix(Lines(Transcript(u)), Lines(Transcript(u)'))
        /\ \A t \in Threads :
              (pc[t] = "history" /\ pc'[t] = "predict") =>
                  formatted_prompt'[t].conversation_history =
                      join(Lines(Transcript(user_id[t]))) ]_vars

\* Two turns of one user have been saved and the second call's prompt had
\* the first turn in its history.
C8_Witness ==
    \E t \in Threads :
        /\ Ended(t)
        /\ Len(Transcript(user_id[t])) = 4
        /\ formatted_prompt[t] # NoPrompt
        /\ formatted_prompt[t].conversation_history =
              join(Lines(SubSeq(Transcript(user_id[t]), 1, 2)))
        /\ SubSeq(Transcript(user_id[t]), 3, 4) = Turn(t)

\* C9: a call that no interceptor matched and whose completion succeeded has
\* added its turn (the message and the completion) to the transcript of
\* its user and returned a record with a response and no error field.
C9_OneTurnPerSuccess ==
    \A t \in Threads :
        (Ended(t) /\ response[t] # None) =>
            /\ HasTurn(buffers[user_memory[t]], Turn(t))
            /\ Gave(t, "response")
            /\ ~ Gave(t, "error")

\* C10: under every interleaving each user id has one transcript, the one
\* every call for the user got from get_user_memory, and the transcript of
\* a user holds the turn of every call for the user that has saved one.
C10_NoWriteDiscarded ==
    \A t \in Threads :
        /\ (Called(t) /\ user_memory[t] # 0) => user_memory[t] = memory[user_id[t]]
        /\ (Ended(t) /\ Invoked(t, "save_context")) =>
              HasTurn(Transcript(user_id[t]), Turn(t))

\* C11: the transcripts of the users are independent: under every
\* interleaving, no step of a get_support_response call for one user id,
\* whatever the call comes to, changes the transcript of another user id.
C11_TranscriptsIndependent ==
    [][ \A t \in Threads, u \in Users :
            (pc'[t] # pc[t] /\ Called(t)' /\ user_id'[t] # u) =>
                Transcript(u)' = Transcript(u) ]_vars

\* Two calls for two users have ended and the transcript of each user is the
\* turn of its call.
C11_Witness ==
    \E t1, t2 \in Threads :
        /\ Ended(t1) /\ Ended(t2)
        /\ user_id[t1] # user_id[t2]
        /\ Invoked(t1, "save_context") /\ Invoked(t2, "save_context")
        /\ Transcript(user_id[t1]) = Turn(t1)
        /\ Transcript(user_id[t2]) = Turn(t2)

\* The request is a JSON object whose user_id or user_message is missing or
\* empty.
Incomplete(body) ==
    /\ body \notin {NoRequest, JsonNull}
    /\ \/ "user_id" \notin DOMAIN body
       \/ "user_message" \notin DOMAIN body
       \/ body["user_id"] = ""
       \/ body["user_message"] = ""

\* C12: validation comes before everything: the step that takes up a
\* request whose user_id or user_message is missing or empty ends the
\* request with status 400 and the validation error; the endpoint answers
\* itself (no pre-empt answer), no method of the agent is called, the
\* query is not categorized, no memory is looked up, no completion is
\* asked for, and no transcript is created or changed.
C12_ValidationFirst ==
    [][ \A t \in Threads :
            (pc[t] = "idle" /\ pc'[t] # "idle" /\ Incomplete(data'[t])) =>
                /\ pc'[t] = "done"
                /\ reply'[t] = [status |-> 400,
                                body |-> [error |-> "user_id and user_message are required"]]
                /\ calls'[t] = << "support_endpoint" >>
                /\ result'[t] = NoResult
                /\ category'[t] = None
                /\ user_memory'[t] = 0
                /\ response'[t] = None
                /\ memory' = memory
                /\ buffers' = buffers ]_vars

\* A request without user_id whose message asks for the customer care
\* number was rejected, and so was a request of a user without a message.
C12_Witness ==
    \E t1, t2 \in Threads :
        /\ pc[t1] = "done" /\ pc[t2] = "done"
        /\ "user_id" \notin DOMAIN data[t1]
        /\ user_message[t1] = "customer care number"
        /\ reply[t1] # NoReply /\ reply[t1].status = 400
        /\ "user_id" \in DOMAIN data[t2]
        /\ "user_message" \notin DOMAIN data[t2]
        /\ reply[t2] # NoReply /\ reply[t2].status = 400

\* The request is a JSON object with a user_id and a user_message.
Complete(body) ==
    /\ body \notin {NoRequest, JsonNull}
    /\ "user_id" \in DOMAIN body /\ body["user_id"] # ""
    /\ "user_message" \in DOMAIN body /\ body["user_message"] # ""

\* The messages that ask for the contact number and those that ask for a
\* technical visit, whatever the case of their letters.
AsksContact ==
    {<< m, In("customer care number", lower(m)) \/ In("contact number", lower(m)) >> :
        m \in RequestMessages}
AsksVisit ==
    {<< m, In("schedule technical visit", lower(m)) >> : m \in RequestMessages}

\* C13: the step that takes up a valid request whose message contains
\* "customer care number", "contact number" or "schedule technical visit",
\* in any case of the letters, ends the request with the fixed text of the
\* endpoint for it; agent.get_support_response is not called: the query is
\* not categorized, no memory is looked up or changed and no completion is
\* asked for.
C13_TransportPreempt ==
    [][ \A t \in Threads :
            ( /\ pc[t] = "idle" /\ pc'[t] # "idle"
              /\ Complete(data'[t])
              /\ \/ Lookup(AsksContact, data'[t]["user_message"])
                 \/ Lookup(AsksVisit, data'[t]["user_message"]) ) =>
                /\ pc'[t] = "done"
                /\ reply'[t] =
                      IF Lookup(AsksContact, data'[t]["user_message"])
                      THEN [status |-> 200,
                            body |-> [response |-> "Thank you for reaching out! You can contact Airtel customer care by visiting our support page: https://www.airtel.in/support"]]
                      ELSE [status |-> 200,
                            body |-> [response |-> "Thank you for your request! To schedule a technical visit, please visit our support page: https://www.airtel.in/support"]]
                /\ calls'[t] = << "support_endpoint" >>
                /\ ~ Called(t)'
                /\ result'[t] = NoResult
                /\ category'[t] = None
                /\ user_memory'[t] = 0
                /\ response'[t] = None
                /\ memory' = memory
                /\ buffers' = buffers ]_vars

\* A request with the message "Schedule Technical Visit", which has the
\* keyword "visit" of the agent's first interceptor, was answered by the
\* endpoint, and so was one with "Contact Number".
C13_Witness ==
    \E t1, t2 \in Threads :
        /\ pc[t1] = "done" /\ pc[t2] = "done"
        /\ user_message[t1] = "Schedule Technical Visit"
        /\ user_message[t2] = "Contact Number"
        /\ calls[t1] = << "support_endpoint" >>
        /\ calls[t2] = << "support_endpoint" >>
        /\ reply[t1] # NoReply /\ reply[t1].status = 200
        /\ reply[t2] # NoReply /\ reply[t2].status = 200

\* C14: whenever the agent's call returned a record with an error field, the
\* endpoint answers with a failure status and a response text for the user
\* that points to the support page, not with the error of the program alone.
C14_ErrorsBecomeApology ==
    \A t \in Threads :
        Gave(t, "error") =>
            /\ reply[t].status >= 400
            /\ "response" \in DOMAIN reply[t].body
            /\ In("https://www.airtel.in/support", reply[t].body.response)

\* The thread's call of handle_feedback has ended.
FedBack(t) == pc[t] = "done" /\ calls[t] = << "handle_feedback" >>

\* The rating literals, each at the place of its number.
Ratings == << "1", "2", "3", "4", "5" >>

\* The words that tell the tiers of handle_feedback apart, in a text.
Tiers(text) ==
    {word \in {"Excellent", "improvement", "Satisfactory", "invalid rating"} :
        In(word, text)}

\* C15: handle_feedback is tiered on the rating: it returns a record with a
\* response (and nothing else) that, for a rating literal above 3, has
\* "Excellent", for one below 3 "improvement", for "3" "Satisfactory", and
\* for any other value "invalid rating", and none of the other three.
C15_FeedbackTiers ==
    \A t \in Threads :
        FedBack(t) =>
            /\ ~ result[t].raised
            /\ DOMAIN result[t].value = {"response"}
            /\ Tiers(result[t].value.response) =
                  IF \E n \in 1..5 : Ratings[n] = user_message[t] /\ n > 3
                  THEN {"Excellent"}
                  ELSE IF \E n \in 1..5 : Ratings[n] = user_message[t] /\ n < 3
                  THEN {"improvement"}
                  ELSE IF user_message[t] = Ratings[3]
                  THEN {"Satisfactory"}
                  ELSE {"invalid rating"}

\* handle_feedback has been called with "3" and with "9".
C15_Witness ==
    \E t1, t2 \in Threads :
        /\ FedBack(t1) /\ user_message[t1] = "3"
        /\ In("Satisfactory", result[t1].value.response)
        /\ FedBack(t2) /\ user_message[t2] = "9"
        /\ In("invalid rating", result[t2].value.response)

\* C16: the step that starts get_support_response with a message that is
\* one of the literals "1" to "5" ends the call with what handle_feedback
\* gives for it (for "3", a response with "Satisfactory"); handle_feedback is
\* the one method the call calls, so no completion is asked for, and no
\* transcript is created or changed. A call with any other message, one
\* with a digit in it too, never calls handle_feedback.
C16_RatingRouting ==
    [][ \A t \in Threads :
            /\ ( /\ pc[t] = "idle" /\ Called(t)'
                 /\ \E n \in 1..5 : Ratings[n] = user_message'[t] ) =>
                  /\ pc'[t] = "done"
                  /\ result'[t] = Return(handle_feedback(user_message'[t]))
                  /\ user_message'[t] = "3" =>
                        In("Satisfactory", result'[t].value.response)
                  /\ calls'[t] = << "get_support_response", "handle_feedback" >>
                  /\ ~ Invoked(t, "llm.predict")'
                  /\ memory' = memory
                  /\ buffers' = buffers
            /\ ( /\ Called(t)'
                 /\ \A n \in 1..5 : Ratings[n] # user_message'[t] ) =>
                  ~ Invoked(t, "handle_feedback")' ]_vars

\* A call with the message "3" has returned the "Satisfactory" response, and
\* a call with the message "rate 3" has got a completion.
C16_Witness ==
    \E t1, t2 \in Threads :
        /\ Ended(t1) /\ user_message[t1] = "3"
        /\ Gave(t1, "response")
        /\ In("Satisfactory", result[t1].value.response)
        /\ Ended(t2) /\ user_message[t2] = "rate 3"
        /\ Invoked(t2, "llm.predict")
        /\ response[t2] # None

\* C17: every record get_support_response returns, on the interceptor
\* paths, after a completion, after the check for unresolved technical
\* issues and on a failure, has exactly one of the fields response and
\* error: never both, never neither, and no other field.
C17_ResponseOrError ==
    \A t \in Threads :
        Ended(t) =>
            /\ ~ result[t].raised
            /\ \/ DOMAIN result[t].value = {"response"}
               \/ DOMAIN result[t].value = {"error"}

\* A call has returned the completion, and a call that saved its turn and
\* then failed in the check for unresolved technical issues has returned.
C17_Witness ==
    \E t1, t2 \in Threads :
        /\ Ended(t1) /\ Invoked(t1, "save_context")
        /\ result[t1].value = [response |-> response[t1]]
        /\ Ended(t2) /\ Invoked(t2, "ask_for_engineer_visit")
        /\ DOMAIN result[t2].value = {"error"}

\* The thread's call of get_user_memory has ended.
GotMemory(t) == pc[t] = "done" /\ calls[t] = << "get_user_memory" >>

\* C18: get_user_memory, calls not overlapping: a buffer is created only
\* for a user id that has none, and it is empty; the buffer of a user id is
\* never replaced and keeps the turns it had; a call returns the buffer
\* self.memory holds for the user id, so two calls for the same user id
\* return the same buffer, and the second look-up inside one
\* get_support_response call finds the buffer of the first.
C18_GetUserMemoryIdempotent ==
    [][ /\ \A u \in DOMAIN memory :
              /\ u \in DOMAIN memory'
              /\ memory'[u] = memory[u]
              /\ IsPrefix(buffers[memory[u]], buffers'[memory[u]])
        /\ \A u \in DOMAIN memory' \ DOMAIN memory :
              /\ memory'[u] \notin DOMAIN buffers
              /\ buffers'[memory'[u]] = << >>
        /\ \A t \in Threads :
              /\ pc[t] \in {"create", "store"} => user_id[t] \notin DOMAIN memory
              /\ GotMemory(t)' => result'[t] = Return(memory'[user_id'[t]])
              /\ pc'[t] = "history" => user_memory'[t] = memory'[user_id'[t]]
        /\ \A t1, t2 \in Threads :
              (GotMemory(t1)' /\ GotMemory(t2)' /\ user_id'[t1] = user_id'[t2]) =>
                  /\ result'[t1] = result'[t2]
                  /\ buffers'[result'[t1].value] = buffers'[result'[t2].value] ]_vars

\* After a call of get_support_response has saved a turn for a user,
\* get_user_memory for that user has returned the buffer with the turn.
C18_Witness ==
    \E t1, t2 \in Threads :
        /\ Ended(t1) /\ Invoked(t1, "save_context")
        /\ GotMemory(t2)
        /\ user_id[t2] = user_id[t1]
        /\ result[t2].value = user_memory[t1]
        /\ buffers[result[t2].value] = Turn(t1)

\* The thread's call of get_prompt_template, of either agent class, has ended.
GotTemplate(t) ==
    /\ pc[t] = "done"
    /\ calls[t] \in { << "TechnicalSupportAgent.get_prompt_template" >>,
                       << "MultiSupportAgent.get_prompt_template" >> }

\* C19: get_prompt_template does not fail: for a category that is a key of
\* the templates it returns the template of that key, and for any other
\* category the general_queries template.
C19_TemplateFallback ==
    \A t \in Threads :
        GotTemplate(t) =>
            /\ ~ result[t].raised
            /\ result[t].value =
                  IF category[t] \in prompts THEN category[t] ELSE "general_queries"

\* The branch the claim gives a message: "rating" for a message with "thank
\* you", "exit" or "okay bye" and no keyword of the two earlier
\* interceptors; "farewell" for a message with "bye", none of those three
\* keywords, no keyword of the two earlier interceptors, that is no rating
\* literal; "other" for the rest.
FarewellBranch(m) ==
    IF HasScheduleKeyword(m) \/ In("new connection", lower(m)) THEN "other"
    ELSE IF HasFeedbackKeyword(m) THEN "rating"
    ELSE IF \E n \in 1..5 : Ratings[n] = m THEN "other"
    ELSE IF In("bye", lower(m)) THEN "farewell"
    ELSE "other"
Farewells == {<< m, FarewellBranch(m) >> : m \in RequestMessages}

\* C20: a call whose message has "thank you", "exit" or "okay bye" (and no
\* keyword of an earlier interceptor) returns the fixed request for a rating
\* and never calls handle_exit; the fixed farewell of handle_exit is
\* returned exactly by the calls whose message has "bye", none of those
\* three keywords, no keyword of an earlier interceptor, and is no rating
\* literal.
C20_FarewellBranches ==
    \A t \in Threads :
        Ended(t) =>
            /\ Lookup(Farewells, user_message[t]) = "rating" =>
                  /\ result[t] = Return([response |-> "Thank you for your message! Please rate our service on a scale of 1 to 5."])
                  /\ calls[t] = << "get_support_response", "ask_for_feedback" >>
                  /\ ~ Invoked(t, "handle_exit")
            /\ Lookup(Farewells, user_message[t]) = "farewell" <=>
                  result[t] = Return([response |-> "Goodbye! Thank you for reaching out. If you need assistance in the future, feel free to contact us again. Have a great day!"])
            /\ Lookup(Farewells, user_message[t]) = "farewell" <=>
                  Invoked(t, "handle_exit")

\* A call with "okay bye", which has "bye" in it, has returned the request
\* for a rating, and a call with "bye" has returned the farewell.
C20_Witness ==
    \E t1, t2 \in Threads :
        /\ Ended(t1) /\ user_message[t1] = "okay bye"
        /\ Invoked(t1, "ask_for_feedback")
        /\ Ended(t2) /\ user_message[t2] = "bye"
        /\ Invoked(t2, "handle_exit")
        /\ Gave(t2, "response")

\* The methods the interceptor branches call.
InterceptorMethods ==
    { "schedule_visit_or_call", "handle_new_connection", "ask_for_feedback",
      "handle_feedback", "handle_exit" }

\* The call went into an interceptor branch.
TookInterceptor(t) ==
    Called(t) /\ Len(calls[t]) >= 2 /\ calls[t][2] \in InterceptorMethods

\* No message of the sequence is a message an interceptor takes or a reply
\* of an interceptor: each is a message that went to the completion service
\* or a completion.
FreeOfIntercepted(messages) ==
    \A i \in 1..Len(messages) :
        IF messages[i].type = "human"
        THEN ~ Lookup(Intercepting, messages[i].content)
        ELSE messages[i].content \in Completions

\* C21: a call that returns from an interceptor branch leaves the session
\* store as it was: self.memory has the same user ids and buffers (none is
\* created for a user id not seen before) and no buffer gains a turn; so no
\* buffer ever holds an intercepted message or an interceptor's reply, and
\* the conversation history of every prompt is rendered from a transcript
\* without them.
C21_InterceptedLeavesStore ==
    [][ /\ \A t \in Threads :
              (pc[t] = "idle" /\ TookInterceptor(t)') =>
                  /\ pc'[t] = "done"
                  /\ memory' = memory
                  /\ buffers' = buffers
                  /\ user_memory'[t] = 0
        /\ \A b \in DOMAIN buffers' : FreeOfIntercepted(buffers'[b])
        /\ \A t \in Threads :
              (pc[t] = "history" /\ pc'[t] = "predict") =>
                  /\ FreeOfIntercepted(Transcript(user_id[t]))
                  /\ formatted_prompt'[t].conversation_history =
                        join(Lines(Transcript(user_id[t]))) ]_vars

\* An intercepted call for a user never seen has returned and the user has
\* no transcript, while the other user's transcript is the turn of the
\* other call.
C21_Witness ==
    \E t1, t2 \in Threads :
        /\ Ended(t1) /\ TookInterceptor(t1)
        /\ user_id[t1] \notin DOMAIN memory
        /\ Ended(t2) /\ Invoked(t2, "save_context")
        /\ user_id[t2] \in DOMAIN memory
        /\ Transcript(user_id[t2]) = Turn(t2)

====
